---------------------------- MODULE Spec2Model ----------------------------
(***************************************************************************)
(* GPUTasksContext (Source/Engine/Graphics/Async/GPUTasksContext.cpp):     *)
(* the list of GPU tasks waiting for their sync point, the sync-point      *)
(* counter and the per-frame sweep that syncs and reaps the tasks.         *)
(*                                                                         *)
(* GPUTask and Array are declared in headers that are not part of the      *)
(* sources at hand; their operations are modelled from the specification   *)
(* (section 3 and 4.1 for the task, section 3 for the ordered list).       *)
(***************************************************************************)
EXTENDS Integers, Sequences, FiniteSets, TLC

\* ------------------------------------------------------------------ bounds
NumTasks == 2
MaxFrames == 2
MaxLatency == 2
MaxNotifications == 1
MaxRuns == 2

\* ------------------------------------------------------- program constants
\* GPUTasksContext.cpp:16   _currentSyncPoint = 10;
InitialSyncPoint == 10
\* the value a task's sync point holds before Execute assigns one
UnsetSyncPoint == 0

Tasks == 1 .. NumTasks
\* the task objects that exist: one more than the calls of Spec submit, so that
\* OrderSpec can have a task removed from between two that stay
AllTasks == 1 .. (NumTasks + 1)
\* nullptr
NULL == 0
Threads == {"main", "other"}
TaskStates == {"Queued", "Executing", "Finished", "Canceled"}
\* what Execute makes of the work: still in flight, done at once, or failed
ExecuteOutcomes == {"inflight", "immediate", "failed"}

VARIABLES
    _tasksDone,            \* Array<GPUTask*>: the tasks waiting for a sync
    _currentSyncPoint,     \* GPUSyncPoint of the context
    _totalTasksDoneCount,  \* number of tasks reaped by the sweeps
    taskState,             \* GPUTask::GetState() of every task
    taskSyncPoint,         \* GPUTask::GetSyncPoint() of every task
    status,                \* "alive", "destroyed", or "fatal" after a failed ASSERT
    inFrame,               \* between OnFrameBegin and OnFrameEnd
    pc,                    \* position of the frame thread inside OnFrameBegin
    i,                     \* the loop index of the sweep (int32, 0-based)
    task,                  \* the local `task` of the sweep's loop body
    calls,                 \* per task: how often the context called Execute (and how often with the task at the end of _tasksDone), Sync, CancelSync, and logged a warning
    life,                  \* per task: "new", "submitted", "swept", "canceled", "dropped": what the last of Run, a sweep's removal, OnCancelSync and the destructor did with it
    submitAt,              \* per task: the context's sync point when Run took the task
    counted,               \* per task: how often a sweep counted it in _totalTasksDoneCount
    sweep,                 \* the sweep of the running frame: tasks examined, synced and removed, in order
    hazard,                \* what went wrong between the sweep and a concurrent OnCancelSync
    thread                 \* the thread of the last call of Run, OnFrameBegin, OnFrameEnd or the destructor

vars == << _tasksDone, _currentSyncPoint, _totalTasksDoneCount, taskState,
           taskSyncPoint, status, inFrame, pc, i, task, calls, life, submitAt,
           counted, sweep, hazard, thread >>

\* --------------------------------------------------------------- helpers
Range(s) == { s[k] : k \in 1 .. Len(s) }
InList(t, s) == t \in Range(s)
Occurrences(t, s) == Cardinality({ k \in 1 .. Len(s) : s[k] = t })
Bump(f, t) == [f EXCEPT ![t] = @ + 1]
NoCalls == [t \in AllTasks |-> 0]
RECURSIVE SumUpTo(_, _)
SumUpTo(f, n) == IF n = 0 THEN 0 ELSE f[n] + SumUpTo(f, n - 1)
Total(f) == SumUpTo(f, NumTasks + 1)
EmptySweep == [visited |-> << >>, synced |-> << >>, removed |-> << >>]

\* ------------------------------------------ Array<T> (modelled from the spec)
\* Array::Count()
ArrayCount(list) == Len(list)
\* Array::operator[] with a 0-based index
ArrayAt(list, index) == list[index + 1]
\* Array::Add: append at the end
ArrayAdd(list, item) == Append(list, item)
\* Array::Find: 0-based index of the first occurrence, -1 when absent
ArrayFind(list, item) ==
    IF InList(item, list)
    THEN (CHOOSE k \in 1 .. Len(list) :
              list[k] = item /\ \A j \in 1 .. (k - 1) : list[j] # item) - 1
    ELSE -1
\* Array::RemoveAt: drop the element at the 0-based index, the rest keeps its order
ArrayRemoveAt(list, index) ==
    [k \in 1 .. (Len(list) - 1) |-> IF k <= index THEN list[k] ELSE list[k + 1]]
\* Array::Remove: drop the first occurrence of the item, nothing when absent
ArrayRemove(list, item) ==
    IF ArrayFind(list, item) = -1 THEN list
    ELSE ArrayRemoveAt(list, ArrayFind(list, item))
\* Array::Clear
ArrayClear(list) == << >>

\* ------------------------------------------- GPUTask (modelled from the spec)
\* GPUTask::Execute: leaves Queued; work in flight gets a sync point `latency`
\* frames ahead, trivially fast work is Finished at once, failed work ends
\* Canceled and keeps the unset sync point.
\* (a task that has left Queued keeps its state and its sync point)
ExecuteState(st, outcome) ==
    CASE st # "Queued" -> st
      [] outcome = "inflight" -> "Executing"
      [] outcome = "immediate" -> "Finished"
      [] OTHER -> "Canceled"
ExecuteSyncPoint(st, sp, outcome, now, latency) ==
    CASE st # "Queued" -> sp
      [] outcome = "inflight" -> now + latency
      [] outcome = "immediate" -> now
      [] OTHER -> UnsetSyncPoint
\* GPUTask::Sync: a task that is not in a terminal state becomes Finished
SyncState(st) == IF st \in {"Finished", "Canceled"} THEN st ELSE "Finished"
\* GPUTask::Sync of a task that gives up instead of completing: the task, if not
\* in a terminal state, becomes Canceled and reports it with OnCancelSync
SyncAbandonState(st) == IF st \in {"Finished", "Canceled"} THEN st ELSE "Canceled"
\* GPUTask::CancelSync: a task that is not in a terminal state becomes Canceled
CancelSyncState(st) == IF st \in {"Finished", "Canceled"} THEN st ELSE "Canceled"
\* IsInMainThread()
IsInMainThread(th) == th = "main"

\* ----------------------------------------------------------- construction
\* GPUTasksContext::GPUTasksContext
Init ==
    /\ _tasksDone = << >>
    /\ _totalTasksDoneCount = 0
    /\ _currentSyncPoint = InitialSyncPoint
    /\ taskState = [t \in AllTasks |-> "Queued"]
    /\ taskSyncPoint = [t \in AllTasks |-> UnsetSyncPoint]
    /\ status = "alive"
    /\ inFrame = FALSE
    /\ pc = "idle"
    /\ i = 0
    /\ task = NULL
    /\ calls = [Execute |-> NoCalls, ExecuteAtEnd |-> NoCalls, Sync |-> NoCalls,
                CancelSync |-> NoCalls, Warning |-> NoCalls]
    /\ life = [t \in AllTasks |-> "new"]
    /\ submitAt = [t \in AllTasks |-> 0]
    /\ counted = NoCalls
    /\ sweep = EmptySweep
    /\ hazard = {}
    /\ thread = "main"

\* ---------------------------------------------------------------- Run
\* GPUTasksContext.cpp:50   _tasksDone.Add(task);
RunAdd(list, t) == ArrayAdd(list, t)

\* an assertion that comes after the Add finds the list already changed
RunRejected_AddedFirst(list, t) == ArrayAdd(list, t)

\* GPUTasksContext.cpp:48-50   the assertion comes before the Add: a call that
\* fails it leaves the list as it was
RunRejected(list, t) == list

\* an Execute that is called before the Add finds the list without the task
ListAtExecute_Before(before, after) == before

\* GPUTasksContext.cpp:50-51   Execute is called after the Add: the list it finds
ListAtExecute(before, after) == after

\* whether the task stands at the end of the list
IsLast(t, list) == list # << >> /\ list[Len(list)] = t

\* GPUTasksContext::Run(task), called on thread th: ASSERT(task != nullptr);
\* add; task->Execute(this).  Nothing in Run looks at the calling thread, at
\* the task's state, or at whether the task is in _tasksDone already: a task
\* can be submitted again, pending or not.
RunOn(th, t) ==
    /\ status = "alive"
    /\ pc = "idle"
    /\ thread' = th
    /\ IF t = NULL
       THEN /\ status' = "fatal"
            /\ _tasksDone' = RunRejected(_tasksDone, t)
            /\ UNCHANGED << taskState, taskSyncPoint, calls, life, submitAt >>
       ELSE /\ \E outcome \in ExecuteOutcomes :
               \E latency \in (IF outcome = "inflight" THEN 0 .. MaxLatency ELSE {0}) :
                  /\ _tasksDone' = RunAdd(_tasksDone, t)
                  /\ taskState' = [taskState EXCEPT
                         ![t] = ExecuteState(@, outcome)]
                  /\ taskSyncPoint' = [taskSyncPoint EXCEPT
                         ![t] = ExecuteSyncPoint(taskState[t], @, outcome,
                                                 _currentSyncPoint, latency)]
            /\ calls' = [calls EXCEPT
                   !.Execute = Bump(@, t),
                   !.ExecuteAtEnd =
                       IF IsLast(t, ListAtExecute(_tasksDone, RunAdd(_tasksDone, t)))
                       THEN Bump(@, t) ELSE @]
            /\ life' = [life EXCEPT ![t] = "submitted"]
            /\ submitAt' = [submitAt EXCEPT ![t] = _currentSyncPoint]
            /\ UNCHANGED status
    /\ UNCHANGED << _currentSyncPoint, _totalTasksDoneCount, inFrame, pc, i, task,
                    counted, sweep, hazard >>

\* Run called on the frame thread
Run(t) == RunOn("main", t)

\* Run in a behaviour that holds at most n Run calls of tasks
RunWithin(n, th, t) == Total(calls.Execute) < n /\ RunOn(th, t)

\* The tasks of ts a caller has to hand to Run: a submitter creates a task
\* when it first submits it, and the task objects are numbered as they are
\* created; so these are the tasks submitted before and the next new one.
Submittable(ts) == { t \in ts : \A u \in 1 .. (t - 1) : calls.Execute[u] > 0 }

\* ------------------------------------------------------- OnCancelSync
\* a removal that does not test the index Find returned and takes the last
\* element when the task is absent
CancelRemove_Unchecked(list, t) ==
    IF ArrayFind(list, t) = -1
    THEN SubSeq(list, 1, Len(list) - 1)
    ELSE ArrayRemoveAt(list, ArrayFind(list, t))

\* GPUTasksContext.cpp:58   _tasksDone.Remove(task);
CancelRemove(list, t) == ArrayRemove(list, t)

\* GPUTasksContext::OnCancelSync(task): ASSERT(task != nullptr); remove; LOG.
\* The effect of the call on the list, the log and the bookkeeping of the model.
OnCancelSyncEffect(t) ==
    /\ status = "alive"
    /\ IF t = NULL
       THEN /\ status' = "fatal"
            /\ UNCHANGED << _tasksDone, calls, life >>
       ELSE /\ Total(calls.Warning) < MaxNotifications
            /\ _tasksDone' = CancelRemove(_tasksDone, t)
            /\ calls' = [calls EXCEPT !.Warning = Bump(@, t)]
            /\ life' = [life EXCEPT ![t] = IF @ = "submitted" THEN "canceled" ELSE @]
            /\ UNCHANGED status
    /\ UNCHANGED << _currentSyncPoint, _totalTasksDoneCount, taskState,
                    taskSyncPoint, inFrame, pc, i, task, submitAt, counted, sweep,
                    thread >>

\* OnCancelSync called while no sweep is running
OnCancelSync(t) ==
    /\ pc = "idle"
    /\ OnCancelSyncEffect(t)
    /\ UNCHANGED hazard

\* ------------------------------------------------------- OnFrameBegin
\* a counter that advances by two per frame
AdvanceSyncPoint_Twice(csp) == csp + 2

\* a counter that wraps to zero at the end of its range
AdvanceSyncPoint_Wrap(csp) == (csp + 1) % (InitialSyncPoint + MaxFrames)

\* GPUTasksContext.cpp:70   ++_currentSyncPoint;
AdvanceSyncPoint(csp) == csp + 1

\* GPUTasksContext.cpp:73   i < _tasksDone.Count()
LoopCondition(index, list) == index < ArrayCount(list)

\* a comparison that waits one frame longer
SyncDue_Strict(sp, csp, st) == sp < csp /\ st # "Finished"

\* a test that forgets the sync point
SyncDue_AnyPoint(sp, csp, st) == st # "Finished"

\* GPUTasksContext.cpp:76   GetSyncPoint() <= _currentSyncPoint && GetState() != Finished
SyncDue(sp, csp, st) == sp <= csp /\ st # "Finished"

\* a test that reaps every task in a terminal state
ShouldReap_Terminal(st) == st \in {"Finished", "Canceled"}

\* GPUTasksContext.cpp:81   GetState() == TaskState::Finished
ShouldReap(st) == st = "Finished"

\* a count that adds two for one reaped task
CountDone_Twice(total) == total + 2

\* GPUTasksContext.cpp:85   _totalTasksDoneCount++;
CountDone(total) == total + 1

\* GPUTasksContext.cpp:83   _tasksDone.RemoveAt(i);
SweepRemove(list, index) == ArrayRemoveAt(list, index)

\* a removal that forgets to step the index back
IndexAfterRemove_Kept(index) == index

\* GPUTasksContext.cpp:84   i--;
IndexAfterRemove(index) == index - 1

\* The state the sweep works on, as a record
SweepState ==
    [list |-> _tasksDone, i |-> i, task |-> task, state |-> taskState,
     total |-> _totalTasksDoneCount, calls |-> calls, counted |-> counted,
     life |-> life, sweep |-> sweep, abandon |-> {}]

\* GPUTasksContext.cpp:75   auto task = _tasksDone[i];
SweepRead(s) ==
    [s EXCEPT !.task = ArrayAt(s.list, s.i),
              !.sweep.visited = Append(@, ArrayAt(s.list, s.i))]

\* GPUTasksContext.cpp:76-80   if (due) task->Sync();
\* a Sync that calls back OnCancelSync(task) (lines 58-60) before it returns
\* acts on the list the sweep is iterating
SweepSync(s, csp) ==
    IF SyncDue(taskSyncPoint[s.task], csp, s.state[s.task])
    THEN IF s.task \in s.abandon /\ s.state[s.task] # "Canceled"
         THEN [s EXCEPT !.state[s.task] = SyncAbandonState(@),
                        !.calls.Sync = Bump(@, s.task),
                        !.sweep.synced = Append(@, s.task),
                        !.list = CancelRemove(@, s.task),
                        !.calls.Warning = Bump(@, s.task),
                        !.life[s.task] = IF @ = "submitted" THEN "canceled" ELSE @]
         ELSE [s EXCEPT !.state[s.task] = SyncState(@),
                        !.calls.Sync = Bump(@, s.task),
                        !.sweep.synced = Append(@, s.task)]
    ELSE s

\* GPUTasksContext.cpp:81-86 and the loop's i++
SweepReap(s) ==
    IF ShouldReap(s.state[s.task])
    THEN [s EXCEPT !.list = SweepRemove(s.list, s.i),
                   !.i = IndexAfterRemove(s.i) + 1,
                   !.total = CountDone(@),
                   !.counted = Bump(@, s.task),
                   !.life[s.task] = "swept",
                   !.sweep.removed = Append(@, s.task)]
    ELSE [s EXCEPT !.i = @ + 1]

\* GPUTasksContext.cpp:73-87   the whole loop
RECURSIVE SweepLoop(_, _)
SweepLoop(s, csp) ==
    IF LoopCondition(s.i, s.list)
    THEN SweepLoop(SweepReap(SweepSync(SweepRead(s), csp)), csp)
    ELSE s

\* GPUTasksContext::OnFrameBegin, called on thread th and run without
\* interruption.  Nothing in OnFrameBegin looks at the calling thread.  The
\* tasks of ab give up when synced and call back OnCancelSync from their Sync.
OnFrameBeginWith(th, ab) ==
    /\ status = "alive"
    /\ pc = "idle"
    /\ thread' = th
    /\ ~inFrame
    /\ _currentSyncPoint < InitialSyncPoint + MaxFrames
    /\ LET csp == AdvanceSyncPoint(_currentSyncPoint)
           s == SweepLoop([SweepState EXCEPT !.i = 0, !.sweep = EmptySweep,
                                             !.abandon = ab], csp)
       IN /\ _currentSyncPoint' = csp
          /\ _tasksDone' = s.list
          /\ taskState' = s.state
          /\ _totalTasksDoneCount' = s.total
          /\ calls' = s.calls
          /\ counted' = s.counted
          /\ life' = s.life
          /\ sweep' = s.sweep
    /\ inFrame' = TRUE
    /\ UNCHANGED << taskSyncPoint, status, pc, i, task, submitAt, hazard >>

\* OnFrameBegin with tasks that make no call back into the context
OnFrameBeginOn(th) == OnFrameBeginWith(th, {})

\* OnFrameBegin called on the frame thread
OnFrameBegin == OnFrameBeginOn("main")

\* an OnFrameEnd that advances the sync point as the dedicated-context build
\* would on flushing its context
OnFrameEndOn_Advances(th) ==
    /\ status = "alive"
    /\ pc = "idle"
    /\ thread' = th
    /\ inFrame
    /\ inFrame' = FALSE
    /\ sweep' = EmptySweep
    /\ _currentSyncPoint' = _currentSyncPoint + 1
    /\ UNCHANGED << _tasksDone, _totalTasksDoneCount, taskState, taskSyncPoint,
                    status, pc, i, task, calls, life, submitAt, counted, hazard >>

\* GPUTasksContext::OnFrameEnd, called on thread th: nothing without a
\* dedicated context
OnFrameEndOn(th) ==
    /\ status = "alive"
    /\ pc = "idle"
    /\ thread' = th
    /\ inFrame
    /\ inFrame' = FALSE
    /\ sweep' = EmptySweep
    /\ UNCHANGED << _tasksDone, _currentSyncPoint, _totalTasksDoneCount, taskState,
                    taskSyncPoint, status, pc, i, task, calls, life, submitAt,
                    counted, hazard >>

\* OnFrameEnd called on the frame thread
OnFrameEnd == OnFrameEndOn("main")

\* -------------------------------------------------------- destruction
\* GPUTasksContext.cpp:32   auto tasks = _tasksDone;
DtorSnapshot(list) == list

\* GPUTasksContext.cpp:33   _tasksDone.Clear();
DtorClear(list) == ArrayClear(list)

\* GPUTasksContext.cpp:34   i < tasks.Count()
DtorLoopCondition(index, tasks) == index < ArrayCount(tasks)

\* a CancelSync that calls back OnCancelSync(t) (lines 58-60) before it
\* returns acts on _tasksDone as the destructor has left it by then; found
\* collects the tasks such a call still found in _tasksDone
DtorCallback(r, t) ==
    IF t \in r.cb
    THEN [r EXCEPT !.found = IF InList(t, r.pending) THEN @ \cup {t} ELSE @,
                   !.pending = CancelRemove(@, t),
                   !.calls.Warning = Bump(@, t)]
    ELSE r

\* GPUTasksContext.cpp:34-39   warn and CancelSync every task of the snapshot
RECURSIVE DtorLoop(_, _, _)
DtorLoop(tasks, index, r) ==
    IF DtorLoopCondition(index, tasks)
    THEN LET t == ArrayAt(tasks, index)
         IN DtorLoop(tasks, index + 1,
                DtorCallback([r EXCEPT !.calls.Warning = Bump(@, t),
                                       !.calls.CancelSync = Bump(@, t),
                                       !.state[t] = CancelSyncState(@)], t))
    ELSE r

\* GPUTasksContext::~GPUTasksContext, called on thread th.  The tasks of cb
\* call back OnCancelSync from their CancelSync.
DestroyWith(th, cb) ==
    /\ status = "alive"
    /\ pc = "idle"
    /\ thread' = th
    /\ IF ~IsInMainThread(th)
       THEN /\ status' = "fatal"
            /\ UNCHANGED << _tasksDone, taskState, calls, life, hazard >>
       ELSE LET tasks == DtorSnapshot(_tasksDone)
                r == DtorLoop(tasks, 0,
                         [calls |-> calls, state |-> taskState,
                          pending |-> DtorClear(_tasksDone), cb |-> cb,
                          found |-> {}])
            IN /\ _tasksDone' = r.pending
               /\ hazard' = hazard \cup (IF r.found = {} THEN {}
                                          ELSE {"CancelFoundPending"})
               /\ calls' = r.calls
               /\ taskState' = r.state
               /\ life' = [t \in AllTasks |->
                              IF life[t] = "submitted" THEN "dropped" ELSE life[t]]
               /\ status' = "destroyed"
    /\ UNCHANGED << _currentSyncPoint, _totalTasksDoneCount, taskSyncPoint, inFrame,
                    pc, i, task, submitAt, counted, sweep >>

\* the destructor with tasks that make no call back into the context
Destroy(th) == DestroyWith(th, {})

\* ------------------------------------------------------ specification
\* Every call is made on one thread, one after the other
Next ==
    \/ \E t \in Submittable(Tasks) \cup {NULL} : RunWithin(MaxRuns, "main", t)
    \/ \E t \in Tasks \cup {NULL} : OnCancelSync(t)
    \/ OnFrameBegin
    \/ OnFrameEnd
    \/ Destroy("main")

Spec == Init /\ [][Next]_vars

\* ------------------------------------- the sweep, statement by statement
\* OnCancelSync may be called by the thread that owns the task while the frame
\* thread is inside OnFrameBegin; nothing guards _tasksDone.  The frame thread
\* then runs the sweep one statement at a time and the other thread's call
\* falls between two of them.

\* GPUTasksContext.cpp:70-73   ++_currentSyncPoint; i = 0
SweepBegin ==
    /\ status = "alive"
    /\ pc = "idle"
    /\ ~inFrame
    /\ _currentSyncPoint < InitialSyncPoint + MaxFrames
    /\ _currentSyncPoint' = AdvanceSyncPoint(_currentSyncPoint)
    /\ i' = 0
    /\ sweep' = EmptySweep
    /\ inFrame' = TRUE
    /\ pc' = "check"
    /\ UNCHANGED << _tasksDone, _totalTasksDoneCount, taskState, taskSyncPoint,
                    status, task, calls, life, submitAt, counted, hazard, thread >>

\* GPUTasksContext.cpp:73   the loop condition
SweepCheck ==
    /\ status = "alive"
    /\ pc = "check"
    /\ IF LoopCondition(i, _tasksDone)
       THEN pc' = "read" /\ UNCHANGED << i, task >>
       ELSE pc' = "idle" /\ i' = 0 /\ task' = NULL
    /\ UNCHANGED << _tasksDone, _currentSyncPoint, _totalTasksDoneCount, taskState,
                    taskSyncPoint, status, inFrame, calls, life, submitAt, counted,
                    sweep, hazard, thread >>

\* GPUTasksContext.cpp:75   the element read; past the end of the list the read
\* either trips the bounds assertion or yields whatever the slot holds
SweepReadStep ==
    /\ status = "alive"
    /\ pc = "read"
    /\ IF LoopCondition(i, _tasksDone)
       THEN /\ task' = SweepRead(SweepState).task
            /\ sweep' = SweepRead(SweepState).sweep
            /\ pc' = "sync"
            /\ UNCHANGED << status, hazard >>
       ELSE /\ hazard' = hazard \cup {"IndexPastEnd"}
            /\ \/ status' = "fatal" /\ UNCHANGED << task, sweep, pc >>
               \/ \E stale \in Tasks :
                     /\ task' = stale
                     /\ sweep' = [sweep EXCEPT !.visited = Append(@, stale)]
                     /\ pc' = "sync"
                     /\ UNCHANGED status
    /\ UNCHANGED << _tasksDone, _currentSyncPoint, _totalTasksDoneCount, taskState,
                    taskSyncPoint, inFrame, i, calls, life, submitAt, counted, thread >>

\* GPUTasksContext.cpp:76-80   the sync of the task read
SweepSyncStep ==
    /\ status = "alive"
    /\ pc = "sync"
    /\ LET s == SweepSync(SweepState, _currentSyncPoint)
       IN /\ taskState' = s.state
          /\ calls' = s.calls
          /\ sweep' = s.sweep
          /\ hazard' = IF s.calls # calls /\ ~InList(task, _tasksDone)
                       THEN hazard \cup {"SyncAfterCancel"} ELSE hazard
    /\ pc' = "reap"
    /\ UNCHANGED << _tasksDone, _currentSyncPoint, _totalTasksDoneCount,
                    taskSyncPoint, status, inFrame, i, task, life, submitAt, counted,
                    thread >>

\* GPUTasksContext.cpp:81-86   the removal at index i, and the loop's i++;
\* past the end of the list RemoveAt either trips the bounds assertion, or
\* leaves the list alone, or drops its last element
SweepReapStep ==
    /\ status = "alive"
    /\ pc = "reap"
    /\ IF ShouldReap(taskState[task]) /\ ~LoopCondition(i, _tasksDone)
       THEN /\ hazard' = hazard \cup {"IndexPastEnd", "CountedAfterCancel"}
            /\ \/ status' = "fatal"
                  /\ UNCHANGED << _tasksDone, i, _totalTasksDoneCount, counted,
                                  life, sweep, pc >>
               \/ /\ _tasksDone' \in {_tasksDone, SubSeq(_tasksDone, 1, Len(_tasksDone) - 1)}
                  /\ i' = IndexAfterRemove(i) + 1
                  /\ _totalTasksDoneCount' = CountDone(_totalTasksDoneCount)
                  /\ counted' = Bump(counted, task)
                  /\ pc' = "check"
                  /\ UNCHANGED << status, life, sweep >>
       ELSE LET s == SweepReap(SweepState)
            IN /\ _tasksDone' = s.list
               /\ i' = s.i
               /\ _totalTasksDoneCount' = s.total
               /\ counted' = s.counted
               /\ life' = s.life
               /\ sweep' = s.sweep
               /\ hazard' = hazard
                     \cup (IF s.list # _tasksDone /\ ArrayAt(_tasksDone, i) # task
                           THEN {"RemovedOtherTask"} ELSE {})
                     \cup (IF s.list # _tasksDone /\ ~InList(task, _tasksDone)
                           THEN {"CountedAfterCancel"} ELSE {})
               /\ pc' = "check"
               /\ UNCHANGED status
    /\ UNCHANGED << _currentSyncPoint, taskState, taskSyncPoint, inFrame, task,
                    calls, submitAt, thread >>

\* OnCancelSync called by another thread while the frame thread is in the sweep
ConcurrentOnCancelSync(t) ==
    /\ pc # "idle"
    /\ OnCancelSyncEffect(t)
    /\ UNCHANGED hazard

ConcNext ==
    \/ \E t \in Submittable(Tasks) : RunWithin(MaxRuns, "main", t)
    \/ \E t \in Tasks : OnCancelSync(t)
    \/ \E t \in Tasks : ConcurrentOnCancelSync(t)
    \/ SweepBegin
    \/ SweepCheck
    \/ SweepReadStep
    \/ SweepSyncStep
    \/ SweepReapStep
    \/ OnFrameEnd
    \/ Destroy("main")

ConcSpec == Init /\ [][ConcNext]_vars

\* ------------------------------------------- calls made on any thread
\* Run, OnFrameBegin, OnFrameEnd and the destructor called on the frame thread
\* or on another thread, one call after the other
ThreadNext ==
    \/ \E th \in Threads :
          \E t \in Submittable(Tasks) \cup {NULL} : RunWithin(MaxRuns, th, t)
    \/ \E t \in Tasks \cup {NULL} : OnCancelSync(t)
    \/ \E th \in Threads : OnFrameBeginOn(th)
    \/ \E th \in Threads : OnFrameEndOn(th)
    \/ \E th \in Threads : Destroy(th)

ThreadSpec == Init /\ [][ThreadNext]_vars

\* ------------------------------------------- three tasks in flight
\* Run, OnCancelSync and the frame calls on the frame thread, with every task
\* object submitted: tasks are submitted between frames and go in flight, and
\* the tasks canceled are pending ones
RunInFlight(t) ==
    ~inFrame /\ RunWithin(MaxRuns + 1, "main", t) /\ taskState'[t] = "Executing"

CancelPending(t) == InList(t, _tasksDone) /\ OnCancelSync(t)

OrderNext ==
    \/ \E t \in Submittable(AllTasks) : RunInFlight(t)
    \/ \E t \in AllTasks : CancelPending(t)
    \/ OnFrameBegin
    \/ OnFrameEnd

OrderSpec == Init /\ [][OrderNext]_vars

\* ------------------------------------------- tasks that call back
\* Calls on the frame thread, with tasks whose Sync or CancelSync calls
\* OnCancelSync for the task itself before it returns; these calls are the only
\* OnCancelSync calls made
OnFrameBeginReentrant(ab) == ab \subseteq Range(_tasksDone) /\ OnFrameBeginWith("main", ab)

DestroyReentrant(cb) == cb \subseteq Range(_tasksDone) /\ DestroyWith("main", cb)

ReentrantNext ==
    \/ \E t \in Submittable(Tasks) : RunWithin(MaxRuns, "main", t)
    \/ \E ab \in SUBSET Tasks : OnFrameBeginReentrant(ab)
    \/ OnFrameEnd
    \/ \E cb \in SUBSET Tasks : DestroyReentrant(cb)

ReentrantSpec == Init /\ [][ReentrantNext]_vars

\* ============================================================== claims
OnFrameBeginStep == _currentSyncPoint' # _currentSyncPoint

\* the step is a call of OnFrameBegin: a frame opens
FrameOpens == ~inFrame /\ inFrame'

\* C1: every task that Run submitted and that neither a sweep nor
\* OnCancelSync (nor the destructor) has removed occurs in _tasksDone
\* exactly once.  (Violated: Run adds the task at line 50 without looking for
\* it in the list, so a task handed to Run while it is pending is pending
\* twice.)
C1_PendingExactlyOnce ==
    \A t \in Tasks : life[t] = "submitted" => Occurrences(t, _tasksDone) = 1

\* the scenario of C2: task t was submitted, once, with a sync point `ahead`
\* frames after the context's, did not finish on its own, and nobody canceled it
C2_Scenario(t, ahead) ==
    /\ status = "alive"
    /\ calls.Execute[t] = 1
    /\ life[t] \in {"submitted", "swept"}
    /\ taskSyncPoint[t] = submitAt[t] + ahead

\* C2 as stated: with syncPoint = now + 1 the task is still pending and not
\* synced after the first OnFrameBegin, and synced, Finished, removed and
\* counted once after the second.
C2_Original ==
    \A t \in Tasks : C2_Scenario(t, 1) =>
        /\ _currentSyncPoint = submitAt[t] + 1 =>
              InList(t, _tasksDone) /\ calls.Sync[t] = 0
        /\ _currentSyncPoint = submitAt[t] + 2 =>
              /\ calls.Sync[t] = 1
              /\ taskState[t] = "Finished"
              /\ ~InList(t, _tasksDone)
              /\ counted[t] = 1

\* C2 amended: with syncPoint = now + 2 the task is still pending and not
\* synced after the first OnFrameBegin, and synced, Finished, removed and
\* counted exactly once after the second.
C2_TwoFramesAhead ==
    \A t \in Tasks : C2_Scenario(t, 2) =>
        /\ _currentSyncPoint <= submitAt[t] + 1 =>
              /\ InList(t, _tasksDone)
              /\ calls.Sync[t] = 0
              /\ taskState[t] = "Executing"
              /\ counted[t] = 0
        /\ _currentSyncPoint = submitAt[t] + 2 =>
              /\ calls.Sync[t] = 1
              /\ taskState[t] = "Finished"
              /\ ~InList(t, _tasksDone)
              /\ counted[t] = 1
              /\ _totalTasksDoneCount = Total(counted)

\* the task of the scenario after the second OnFrameBegin
C2_Witness ==
    \E t \in Tasks :
        /\ C2_Scenario(t, 2)
        /\ _currentSyncPoint = submitAt[t] + 2
        /\ life[t] = "swept"

\* C3: Sync is called on a task only by a sweep of OnFrameBegin, on a task of
\* _tasksDone, and only when the task's sync point is not greater than the
\* context's sync point after the increment of that call.
C3_SyncOnlyWhenDue ==
    [][\A t \in Tasks :
          calls'.Sync[t] # calls.Sync[t] =>
              /\ OnFrameBeginStep
              /\ InList(t, _tasksDone)
              /\ taskSyncPoint[t] <= _currentSyncPoint']_vars

\* a sweep has synced one task and left alone a task whose point is ahead
C3_Witness ==
    \E t, u \in Tasks :
        /\ calls.Sync[t] = 1
        /\ InList(u, sweep.visited)
        /\ InList(u, _tasksDone)
        /\ taskSyncPoint[u] > _currentSyncPoint
        /\ calls.Sync[u] = 0

\* C4: a pending task that is not Finished and whose sync point equals the
\* context's sync point is synced by the very next OnFrameBegin, and when the
\* sync leaves it Finished that call removes it from _tasksDone.
C4_SyncedOnNextFrame ==
    [][OnFrameBeginStep =>
          \A t \in Tasks :
              ( /\ InList(t, _tasksDone)
                /\ taskSyncPoint[t] = _currentSyncPoint
                /\ taskState[t] # "Finished" ) =>
              /\ calls'.Sync[t] = calls.Sync[t] + 1
              /\ taskState'[t] = "Finished" => ~InList(t, _tasksDone')]_vars

\* a task submitted with the context's sync point has been synced and removed
\* by the next OnFrameBegin, behind another task that the sweep removed
C4_Witness ==
    \E t, u \in Tasks :
        /\ t # u
        /\ taskSyncPoint[t] = submitAt[t]
        /\ _currentSyncPoint = submitAt[t] + 1
        /\ calls.Sync[t] = 1
        /\ life[t] = "swept"
        /\ sweep.removed = << u, t >>

\* C5: no task stays pending for good; in particular a task that ended in a
\* terminal state other than Finished, without telling the context, is gone
\* from _tasksDone once a sweep has seen it.  (The sweep removes a task only
\* when it is Finished and a terminal state never changes, so a Canceled task
\* that one sweep leaves pending is left pending by every later sweep.)
C5_NoTerminalTaskStaysPending ==
    \A t \in Tasks :
        (InList(t, _tasksDone) /\ taskState[t] = "Canceled") =>
            submitAt[t] = _currentSyncPoint

\* C6: a call of OnCancelSync by another thread during the sweep is safe in
\* every interleaving: the sweep never indexes past the end of _tasksDone,
\* never removes a task other than the one it examined, and neither syncs nor
\* counts a task that the cancellation has removed.
C6_ConcurrentCancelIsSafe == hazard = {}

\* C7: the destructor calls CancelSync once on every task of _tasksDone and
\* on no other task, logs one warning for each of them, and leaves
\* _tasksDone empty.  (Violated: a task that Run took twice is in the snapshot
\* twice, and the loop of lines 34-39 warns and cancels it twice.)
C7_DestroyCancelsEachOnce ==
    [][(status = "alive" /\ status' = "destroyed") =>
          /\ _tasksDone' = << >>
          /\ \A t \in Tasks :
                /\ calls'.CancelSync[t] =
                       calls.CancelSync[t] + (IF InList(t, _tasksDone) THEN 1 ELSE 0)
                /\ calls'.Warning[t] =
                       calls.Warning[t] + (IF InList(t, _tasksDone) THEN 1 ELSE 0)
          /\ Total(calls'.CancelSync) = Len(_tasksDone)]_vars

\* the precondition of C8: every pending task is due and none is Finished
C8_AllDue ==
    /\ _tasksDone # << >>
    /\ \A t \in Range(_tasksDone) :
          taskSyncPoint[t] <= _currentSyncPoint /\ taskState[t] # "Finished"

\* C8: when every pending task is due and none is Finished, one OnFrameBegin
\* syncs and removes all of them in the order of submission and adds their
\* number to _totalTasksDoneCount.
C8_AllDueSweptInOrder ==
    [][(OnFrameBeginStep /\ C8_AllDue) =>
          /\ sweep'.synced = _tasksDone
          /\ sweep'.removed = _tasksDone
          /\ _tasksDone' = << >>
          /\ _totalTasksDoneCount' = _totalTasksDoneCount + Len(_tasksDone)]_vars

\* what the sweep does for C8 when the due tasks are all still Executing
C8_InFlightSweptInOrder ==
    [][(OnFrameBeginStep /\ C8_AllDue
          /\ \A t \in Range(_tasksDone) : taskState[t] = "Executing") =>
          /\ sweep'.synced = _tasksDone
          /\ sweep'.removed = _tasksDone
          /\ _tasksDone' = << >>
          /\ _totalTasksDoneCount' = _totalTasksDoneCount + Len(_tasksDone)]_vars

\* C9: a task that OnCancelSync took out of the pending tasks is absent from
\* _tasksDone until Run takes it again, and no OnFrameBegin in between syncs,
\* removes or counts it.  (Violated: OnCancelSync removes the first occurrence
\* only, line 58, so a task that Run took twice is still pending after the
\* call and the next sweep works on it.)
C9_CanceledTaskLeftAlone ==
    /\ [](\A t \in Tasks : life[t] = "canceled" => ~InList(t, _tasksDone))
    /\ [][FrameOpens =>
             \A t \in Tasks :
                 life[t] = "canceled" =>
                     /\ calls'.Sync[t] = calls.Sync[t]
                     /\ counted'[t] = counted[t]
                     /\ ~InList(t, sweep'.removed)
                     /\ life'[t] = "canceled"]_vars

\* C10: OnCancelSync for a task that is not in _tasksDone changes nothing of
\* the context: not _tasksDone, not the sync point, not the count, and the
\* context stays alive.
C10_CancelOfAbsentTask ==
    [][\A t \in Tasks :
          ( /\ status = "alive" /\ status' # "destroyed"
            /\ calls'.Warning[t] # calls.Warning[t]
            /\ ~InList(t, _tasksDone) ) =>
          /\ _tasksDone' = _tasksDone
          /\ _currentSyncPoint' = _currentSyncPoint
          /\ _totalTasksDoneCount' = _totalTasksDoneCount
          /\ taskState' = taskState
          /\ status' = "alive"]_vars

\* OnCancelSync was called for a task that a sweep had removed already,
\* while another task was pending
C10_Witness ==
    \E t \in Tasks :
        /\ status = "alive"
        /\ life[t] = "swept"
        /\ calls.Warning[t] = 1
        /\ _tasksDone # << >>

\* C11: every OnFrameBegin call advances _currentSyncPoint by exactly one and
\* no other call moves it, so the counter after one OnFrameBegin is the counter
\* after the one before plus 1 whatever was called in between; and the sweep
\* compares against the advanced counter: a pending task that is not Finished
\* gets a Sync in this call exactly when its sync point is at most the old
\* counter plus one.
C11_AdvancesByOneBeforeSweep ==
    [][ /\ _currentSyncPoint' = _currentSyncPoint + (IF FrameOpens THEN 1 ELSE 0)
        /\ FrameOpens =>
               \A t \in Range(_tasksDone) :
                   taskState[t] # "Finished" =>
                       ( calls'.Sync[t] > calls.Sync[t]
                           <=> taskSyncPoint[t] <= _currentSyncPoint + 1 ) ]_vars

\* the second frame has begun and its sweep synced a task whose sync point is
\* the counter it had just advanced to
C11_Witness ==
    /\ inFrame
    /\ _currentSyncPoint = InitialSyncPoint + 2
    /\ \E t \in Range(sweep.synced) : taskSyncPoint[t] = _currentSyncPoint

\* C12: _currentSyncPoint never decreases, and a step that changes it is a call
\* of OnFrameBegin: Run (with the task's Execute), OnCancelSync, OnFrameEnd and
\* the destructor leave it as it is.
C12_CounterOnlyGrowsInOnFrameBegin ==
    [][ /\ _currentSyncPoint' >= _currentSyncPoint
        /\ _currentSyncPoint' # _currentSyncPoint => FrameOpens ]_vars

\* two frames have begun, and between them a task was submitted and canceled
\* and another is still pending
C12_Witness ==
    /\ _currentSyncPoint = InitialSyncPoint + 2
    /\ \E t \in Tasks : life[t] = "canceled" /\ submitAt[t] > InitialSyncPoint
    /\ \E u \in Tasks : life[u] = "submitted"

\* C13: the sweep never calls Sync on a task whose sync point is still the
\* value that stands for "not assigned" (violated: 0 <= _currentSyncPoint holds
\* for every counter from 10 up, so the comparison at line 76 takes the unset
\* sync point for an elapsed one).
C13_UnsetSyncPointNotForced ==
    [][ \A t \in Tasks :
            calls'.Sync[t] # calls.Sync[t] => taskSyncPoint[t] # UnsetSyncPoint ]_vars

\* C14: a Run(t) call puts t at the end of _tasksDone and calls t's Execute
\* once; when Execute starts, t is already the last element of the list; the
\* call makes no Sync and no CancelSync call, calls Execute of no other task,
\* and removes nothing from the list.
C14_RunAppendsThenExecutes ==
    /\ [](calls.ExecuteAtEnd = calls.Execute)
    /\ [][ \A t \in Tasks :
              calls'.Execute[t] # calls.Execute[t] =>
                  /\ _tasksDone' = Append(_tasksDone, t)
                  /\ calls'.Execute = Bump(calls.Execute, t)
                  /\ calls'.ExecuteAtEnd = Bump(calls.ExecuteAtEnd, t)
                  /\ calls'.Sync = calls.Sync
                  /\ calls'.CancelSync = calls.CancelSync ]_vars

\* a second task was submitted behind a pending one and its Execute found it
\* at the end of the list
C14_Witness ==
    /\ Len(_tasksDone) = 2
    /\ calls.Execute[_tasksDone[2]] = 1
    /\ calls.ExecuteAtEnd[_tasksDone[2]] = 1
    /\ calls.Execute[_tasksDone[1]] = 1

\* C15: an OnCancelSync(t) call on a pending task t takes t out of _tasksDone,
\* keeps every other task of the list in its place, logs one warning (for t),
\* and changes nothing else: no Execute, Sync or CancelSync call, no change of
\* _totalTasksDoneCount, of _currentSyncPoint or of a task's state.
\* (Violated: of a task that Run took twice the call removes the first
\* occurrence, line 58, and the task is still in _tasksDone afterwards.)
C15_CancelOnlyRemovesAndWarns ==
    [][ \A t \in Tasks :
            ( /\ calls'.Warning[t] # calls.Warning[t]
              /\ status' = "alive"
              /\ InList(t, _tasksDone) ) =>
                /\ _tasksDone' = SelectSeq(_tasksDone, LAMBDA x : x # t)
                /\ calls' = [calls EXCEPT !.Warning = Bump(@, t)]
                /\ _totalTasksDoneCount' = _totalTasksDoneCount
                /\ _currentSyncPoint' = _currentSyncPoint
                /\ taskState' = taskState
                /\ taskSyncPoint' = taskSyncPoint ]_vars

\* C16: a call of Run, OnFrameBegin, OnFrameEnd or the destructor made on a
\* thread other than the frame thread fails at once, with _tasksDone,
\* _currentSyncPoint and _totalTasksDoneCount as they were (violated: only the
\* destructor tests the thread, line 29).  OnCancelSync steps, the only ones
\* that keep the thread and may log a warning, are left aside.
C16_WrongThreadFailsFast ==
    [][ ( /\ status = "alive"
          /\ thread' = "other"
          /\ calls'.Warning = calls.Warning ) =>
            /\ status' = "fatal"
            /\ _tasksDone' = _tasksDone
            /\ _currentSyncPoint' = _currentSyncPoint
            /\ _totalTasksDoneCount' = _totalTasksDoneCount ]_vars

\* C17: a call that fails its precondition on the frame thread (Run(null),
\* OnCancelSync(null)) ends the program before any effect: _tasksDone is as it
\* was, no Execute was called, no warning was logged, and nothing else of the
\* bookkeeping moved.
C17_NullFailsBeforeAnyEffect ==
    [][ ( status = "alive" /\ status' = "fatal" /\ thread' = "main" ) =>
            /\ _tasksDone' = _tasksDone
            /\ calls' = calls
            /\ _currentSyncPoint' = _currentSyncPoint
            /\ _totalTasksDoneCount' = _totalTasksDoneCount
            /\ taskState' = taskState
            /\ taskSyncPoint' = taskSyncPoint ]_vars

\* a null task was passed on the frame thread while a task was pending, and
\* the pending task is still there, executed once and without a warning
C17_Witness ==
    /\ status = "fatal"
    /\ thread = "main"
    /\ Len(_tasksDone) = 1
    /\ calls.Execute[_tasksDone[1]] = 1
    /\ Total(calls.Warning) = 0

\* C18: an OnFrameEnd call leaves _tasksDone (elements and order),
\* _currentSyncPoint and _totalTasksDoneCount as they were and calls no
\* Execute, Sync or CancelSync (and logs nothing).
C18_OnFrameEndKeepsBookkeeping ==
    [][ ( inFrame /\ ~inFrame' ) =>
            /\ _tasksDone' = _tasksDone
            /\ _currentSyncPoint' = _currentSyncPoint
            /\ _totalTasksDoneCount' = _totalTasksDoneCount
            /\ calls' = calls
            /\ taskState' = taskState ]_vars

\* a frame that swept one task and left another pending has ended
C18_Witness ==
    /\ ~inFrame
    /\ _currentSyncPoint = InitialSyncPoint + 1
    /\ _totalTasksDoneCount = 1
    /\ Len(_tasksDone) = 1
    /\ sweep = EmptySweep

\* C19: one OnFrameBegin sweep examines the tasks that were pending when it
\* began, each once and in list order, whichever of them it removes, and
\* calls Sync on no task twice.  (Violated: the sweep examines every element
\* of the list once, and a task that Run took twice is two elements: it is
\* examined twice, and synced twice when its Sync does not finish it.)
C19_EachPendingTaskExaminedOnce ==
    [][ FrameOpens =>
            /\ sweep'.visited = _tasksDone
            /\ \A t \in Range(_tasksDone) : Occurrences(t, sweep'.visited) = 1
            /\ \A t \in Tasks :
                   /\ Occurrences(t, sweep'.synced) <= 1
                   /\ calls'.Sync[t] = calls.Sync[t] + Occurrences(t, sweep'.synced) ]_vars

\* C20: in an OnFrameBegin call a pending task leaves _tasksDone exactly when
\* its state after the sync attempt is Finished, and is counted for every
\* place it had in the list; a task that was Finished already is removed and
\* counted without a Sync call; and no task that the call leaves in
\* _tasksDone is Finished.
C20_ReapedIffFinished ==
    [][ FrameOpens =>
            /\ \A t \in Range(_tasksDone) :
                   /\ ~InList(t, _tasksDone') <=> taskState'[t] = "Finished"
                   /\ ~InList(t, _tasksDone') <=>
                          counted'[t] = counted[t] + Occurrences(t, _tasksDone)
                   /\ taskState[t] = "Finished" =>
                          /\ calls'.Sync[t] = calls.Sync[t]
                          /\ ~InList(t, _tasksDone')
            /\ \A t \in Range(_tasksDone') : taskState'[t] # "Finished"
            /\ _totalTasksDoneCount' =
                   _totalTasksDoneCount + Len(_tasksDone) - Len(_tasksDone') ]_vars

\* a task that finished inside Execute was removed and counted by the sweep
\* without a Sync call, and a task the sweep examined is still pending
C20_Witness ==
    \E t, u \in Tasks :
        /\ inFrame
        /\ InList(t, sweep.removed)
        /\ calls.Sync[t] = 0
        /\ counted[t] = 1
        /\ InList(u, sweep.visited)
        /\ InList(u, _tasksDone)
        /\ taskState[u] # "Finished"

\* the tasks an OnFrameBegin step takes out of _tasksDone in state Finished
ReapedInStep ==
    { t \in Range(_tasksDone) : ~InList(t, _tasksDone') /\ taskState'[t] = "Finished" }

\* the number of elements a step takes out of _tasksDone
RemovalsInStep == Len(_tasksDone) - Len(_tasksDone')

\* C21: _totalTasksDoneCount is 0 after construction, never decreases, and is
\* at every point the number of removals of Finished tasks the sweeps have
\* made: an OnFrameBegin step adds one per element it removes, every element
\* it removes is a Finished task, and every other step (Run, OnCancelSync,
\* OnFrameEnd, the destructor with the tasks it cancels) adds nothing.
C21_TotalCountsSweepRemovals ==
    /\ _totalTasksDoneCount = 0
    /\ [](_totalTasksDoneCount = Total(counted))
    /\ [][ /\ _totalTasksDoneCount' =
                 _totalTasksDoneCount + (IF FrameOpens THEN RemovalsInStep ELSE 0)
           /\ FrameOpens =>
                 \A t \in Range(_tasksDone) :
                     Occurrences(t, _tasksDone') < Occurrences(t, _tasksDone)
                         => taskState'[t] = "Finished" ]_vars

\* a sweep reaped one task, and the destructor then canceled the other, which
\* was still pending: the total is one
C21_Witness ==
    /\ status = "destroyed"
    /\ _totalTasksDoneCount = 1
    /\ \E t, u \in Tasks :
           /\ life[t] = "swept"
           /\ life[u] = "dropped"
           /\ calls.CancelSync[u] = 1

\* the tasks that are in _tasksDone before and after the step
Staying == Range(_tasksDone) \cap Range(_tasksDone')

\* C22: the tasks in _tasksDone stand in submission order.  No step changes
\* the relative order of two tasks that stay in the list, whatever it removes,
\* and a task that enters the list stands behind all that were there; so of
\* two pending tasks the one at the lower index was submitted first (its
\* submission is not of a later frame than the other's).  (Violated: a task
\* that Run takes again while it is pending keeps its old place in front of
\* tasks submitted before this Run.)
C22_PendingInSubmissionOrder ==
    /\ [](\A a, b \in 1 .. Len(_tasksDone) :
              a < b => submitAt[_tasksDone[a]] <= submitAt[_tasksDone[b]])
    /\ [][ /\ \A t, u \in Staying :
                  ArrayFind(_tasksDone, t) < ArrayFind(_tasksDone, u)
                      => ArrayFind(_tasksDone', t) < ArrayFind(_tasksDone', u)
           /\ \A t \in Range(_tasksDone') \ Range(_tasksDone) :
                  \A u \in Staying :
                      ArrayFind(_tasksDone', u) < ArrayFind(_tasksDone', t) ]_vars

\* C23: the destructor empties _tasksDone before its first CancelSync call, so
\* that a CancelSync that calls back OnCancelSync for its own task finds the
\* task absent: whichever of the pending tasks call back, the destructor calls
\* CancelSync once on every task that was pending and on no other, logs its
\* one warning per task (and OnCancelSync its own for a task that called
\* back), and leaves _tasksDone empty.  (Violated: a task that Run took twice
\* is in the snapshot twice and gets CancelSync twice.)
C23_DestroySafeAgainstCallbacks ==
    [][ ( status = "alive" /\ status' = "destroyed" ) =>
            /\ _tasksDone' = << >>
            /\ hazard' = {}
            /\ \A t \in AllTasks :
                   /\ calls'.CancelSync[t] =
                          calls.CancelSync[t] + (IF InList(t, _tasksDone) THEN 1 ELSE 0)
                   /\ InList(t, _tasksDone) =>
                          /\ calls'.Warning[t] \in
                                 { calls.Warning[t] + 1, calls.Warning[t] + 2 }
                          /\ taskState'[t] \in {"Finished", "Canceled"}
                   /\ ~InList(t, _tasksDone) =>
                          /\ calls'.Warning[t] = calls.Warning[t]
                          /\ taskState'[t] = taskState[t] ]_vars

\* C24: when a task's Sync gives up and calls OnCancelSync for the task during
\* the sweep, the sweep still examines every task that was pending when it
\* began exactly once, and _totalTasksDoneCount grows by the number of tasks
\* removed in state Finished (violated: the task behind the one that removed
\* itself moves to the index the sweep stands on and the i++ passes it).
C24_SweepSafeAgainstCallbacks ==
    [][ FrameOpens =>
            /\ \A t \in Range(_tasksDone) : Occurrences(t, sweep'.visited) = 1
            /\ _totalTasksDoneCount' =
                   _totalTasksDoneCount + Cardinality(ReapedInStep) ]_vars

=========================================================================
